---------------------------- MODULE Spec2Model ----------------------------
(***************************************************************************)
(* A model of optimization.variational (src/optimization.py): the          *)
(* block-coordinate variational optimizer of the vLGP model, with its      *)
(* rate matrix, lower-bound trace, step sizes and rollback protocol.       *)
(*                                                                         *)
(* Numbers.  The program computes in IEEE doubles.  The model computes on  *)
(* a scaled-down grid: a finite number is an integer count of grid units,  *)
(* ONE units make 1.0, every arithmetic result is rounded to the nearest   *)
(* grid point (ties to even), results beyond FMAX overflow to an infinity, *)
(* and NaN and the two infinities are kept as values with the IEEE rules.  *)
(* MEPS, the spacing of the grid at 1.0, stands for np.finfo(float).eps.   *)
(*                                                                         *)
(* Shapes.  The order of regression is p = 0, so the design matrix is the  *)
(* intercept column and beta holds one coefficient per channel, and the    *)
(* prior lengthscale is short enough for the squared-exponential           *)
(* covariance to be diagonal on the grid, so every T x T matrix is held    *)
(* as its diagonal.  The number of channels is NN or NN - 1, so that runs  *)
(* with fewer channels than latents are among those explored; T is at      *)
(* least L.                                                                *)
(*                                                                         *)
(* Hyperparameters.  With hyper = True the hyperparameter step runs in     *)
(* every fifth outer iteration.  sqexpcov comes from util, which is not    *)
(* part of src/, and is modelled as the squared-exponential kernel         *)
(* var * exp(-w * (i - j)^2).  A run whose rebuilt prior covariance is no  *)
(* longer diagonal on the grid leaves the modelled shapes: it stops in     *)
(* the state "outside", which says nothing about the program.              *)
(*                                                                         *)
(* Control.  The call with control left at default_control is explored by  *)
(* SpecDefaults; Spec passes a control dictionary with the keys the        *)
(* function reads.                                                         *)
(***************************************************************************)
EXTENDS Integers, Sequences, FiniteSets, TLC

\* ------------------------------------------------------------------ bounds
NT == 2          \* T, time bins
NN == 2          \* N, channels
NL == 2          \* L, latent dimensions
MaxIter == 6     \* largest control['max iteration'] tried

\* --------------------------------------------------------- number format
ONE  == 8        \* grid units in 1.0
MEPS == 1        \* np.finfo(np.float).eps: the grid spacing
FMAX == 32767    \* largest finite value (np.nan_to_num's stand-in for inf)
PInf == 40000
NInf == -40000
NaN  == 50000
Empty == 60000      \* what np.empty_like leaves in an entry until it is written

HALF == ONE \div 2

IsNaN(x) == x = NaN
IsFinite(x) == x >= -FMAX /\ x <= FMAX
Sat(x) == IF x > FMAX THEN PInf ELSE IF x < -FMAX THEN NInf ELSE x
Sign(x) == IF x > 0 THEN 1 ELSE IF x < 0 THEN -1 ELSE 0
Abs(x) == IF x < 0 THEN -x ELSE x

\* p / q rounded to the nearest integer, ties to even (q # 0)
RoundDiv(p, q) ==
    LET pp == IF q < 0 THEN -p ELSE p
        qq == Abs(q)
        f == pp \div qq
        r == pp % qq
    IN  IF 2 * r < qq THEN f
        ELSE IF 2 * r > qq THEN f + 1
        ELSE IF f % 2 = 0 THEN f ELSE f + 1

fneg(a) == IF a = NaN THEN NaN ELSE -a

fadd(a, b) ==
    IF a = NaN \/ b = NaN THEN NaN
    ELSE IF a = PInf THEN (IF b = NInf THEN NaN ELSE PInf)
    ELSE IF a = NInf THEN (IF b = PInf THEN NaN ELSE NInf)
    ELSE IF b = PInf \/ b = NInf THEN b
    ELSE Sat(a + b)

fsub(a, b) == fadd(a, fneg(b))

fmul(a, b) ==
    IF a = NaN \/ b = NaN THEN NaN
    ELSE IF ~IsFinite(a) \/ ~IsFinite(b)
         THEN (IF a = 0 \/ b = 0 THEN NaN
               ELSE IF Sign(a) * Sign(b) > 0 THEN PInf ELSE NInf)
    ELSE Sat(RoundDiv(a * b, ONE))

fdiv(a, b) ==
    IF a = NaN \/ b = NaN THEN NaN
    ELSE IF ~IsFinite(a)
         THEN (IF ~IsFinite(b) THEN NaN
               ELSE IF (b >= 0) = (a > 0) THEN PInf ELSE NInf)
    ELSE IF ~IsFinite(b) THEN 0
    ELSE IF b = 0
         THEN (IF a = 0 THEN NaN ELSE IF a > 0 THEN PInf ELSE NInf)
    ELSE Sat(RoundDiv(a * ONE, b))

\* comparisons: every comparison with NaN is false
flt(a, b) == a # NaN /\ b # NaN /\ a < b
fgt(a, b) == a # NaN /\ b # NaN /\ a > b
fabs(a) == IF a = NaN THEN NaN ELSE Abs(a)

\* np.exp on the grid: ExpTable[k - XMIN + 1] = round(ONE * e^(k / ONE))
XMIN == -22
XMAX == 66
ExpTable ==
    << 1, 1, 1, 1, 1, 1, 1, 1, 1, 2, 2, 2, 2, 3, 3, 3, 4, 4, 5, 5, 6, 7, 8,
       9, 10, 12, 13, 15, 17, 19, 22, 25, 28, 32, 36, 41, 46, 52, 59, 67, 76,
       86, 97, 110, 125, 142, 161, 182, 206, 234, 265, 300, 340, 385, 437,
       495, 561, 636, 720, 816, 925, 1048, 1187, 1345, 1525, 1728, 1958,
       2218, 2514, 2848, 3227, 3657, 4144, 4696, 5321, 6030, 6832, 7742,
       8773, 9941, 11265, 12765, 14464, 16390, 18573, 21045, 23848, 27023,
       30621 >>

fexp(x) ==
    IF x = NaN THEN NaN
    ELSE IF x > XMAX THEN PInf          \* overflow, also exp(inf)
    ELSE IF x < XMIN THEN 0             \* underflow, also exp(-inf)
    ELSE ExpTable[x - XMIN + 1]

\* natural logarithm of |v| on the grid, the inverse of the exp table
RECURSIVE LogSearch(_, _)
LogSearch(v, k) ==
    IF k = XMAX \/ ExpTable[k - XMIN + 2] > v THEN k ELSE LogSearch(v, k + 1)

flogabs(v) ==
    IF v = NaN THEN NaN
    ELSE IF v = 0 THEN NInf
    ELSE IF ~IsFinite(v) THEN PInf
    ELSE LogSearch(Abs(v), XMIN)

\* floor of the square root of a natural number
RECURSIVE ISqrt(_, _, _)
ISqrt(n, lo, hi) ==
    IF lo >= hi THEN lo
    ELSE LET mid == (lo + hi + 1) \div 2
         IN  IF mid * mid <= n THEN ISqrt(n, mid, hi) ELSE ISqrt(n, lo, mid - 1)

\* np.sqrt on the grid
fsqrt(x) ==
    IF x = NaN \/ x < 0 THEN NaN
    ELSE IF x = PInf THEN PInf
    ELSE LET n == x * ONE
             s == ISqrt(n, 0, 1024)
         IN  IF n - s * s > s THEN s + 1 ELSE s

\* np.nan_to_num
nan_to_num(x) ==
    IF x = NaN THEN 0 ELSE IF x = PInf THEN FMAX ELSE IF x = NInf THEN -FMAX ELSE x


\* ------------------------------------------------------------ the state
VARIABLES
    N,                  \* the number of channels: T, N = spike.shape
    spike,              \* (T, N) observations, in whole counts
    dtype,              \* element type of spike, which rate inherits
    regressor,          \* (T,) the intercept column of makeregressor(spike, 0)
    prior_mean,         \* (T, L)
    control,            \* the control dict passed by the caller
    args,               \* fixalpha, fixbeta, fixpostmean, fixpostcov,
                        \* normofalpha, hyper, and maxiter, tol read from control
    a0, b0, m0,         \* the initial values given by the caller
    variance, w,        \* hyperparameters; the name w is bound again by the
                        \* posterior mean and covariance blocks
    bmat,               \* the diagonal of bmat, a name the same blocks bind again
    prior_cov, prior_inv,
    last_prior_cov, last_prior_inv, stepsize_w,
    post_mean, post_cov, alpha, beta,
    rate,
    lbound, it, converged,
    good_alpha, good_beta, good_post_mean, good_post_cov,
    last_b, last_a, last_m, last_rate,
    stepsize_alpha, stepsize_beta, stepsize_post_mean,
    lb, predict,        \* locals of the block being run
    pc, idx,            \* position in the outer loop: block and channel/latent
    ev                  \* the history of the run, kept for the properties

inputs == <<N, spike, dtype, regressor, prior_mean, control, args, a0, b0, m0>>
hypers == <<variance, w, bmat, prior_cov, prior_inv>>
rollback == <<last_prior_cov, last_prior_inv, stepsize_w>>
params == <<post_mean, post_cov, alpha, beta>>
trace == <<lbound, it, converged>>
goods == <<good_alpha, good_beta, good_post_mean, good_post_cov>>
lasts == <<last_b, last_a, last_m, last_rate>>
steps == <<stepsize_alpha, stepsize_beta, stepsize_post_mean>>
vars == <<inputs, hypers, rollback, params, rate, trace, goods, lasts, steps, lb, predict,
          pc, idx, ev>>

Ts == 1 .. NT
Ns == 1 .. N
Ls == 1 .. NL

\* ------------------------------------------------------------ constants
eps == 2 * MEPS                 \* eps = 2 * np.finfo(np.float).eps
deflation == HALF               \* 0.5
inflation == ONE + HALF         \* 1.5
thld == (3 * ONE) \div 4        \* 0.75

\* ------------------------------------------------------- vector helpers
\* f[1] + ... + f[k], added left to right
RECURSIVE FSum(_, _)
FSum(f, k) == IF k = 0 THEN 0 ELSE fadd(FSum(f, k - 1), f[k])

\* max(|f[1]|, ..., |f[k]|) as np.max gives it: NaN if any entry is NaN
RECURSIVE FMaxAbs(_, _)
FMaxAbs(f, k) ==
    IF k = 0 THEN 0
    ELSE LET m == FMaxAbs(f, k - 1)
             x == fabs(f[k])
         IN  IF m = NaN \/ x = NaN THEN NaN ELSE IF x > m THEN x ELSE m

\* linalg.norm(x, ord=np.inf) < eps
GradSmall(g, k) == flt(FMaxAbs(g, k), eps)

AllFinite(f, k) == \A i \in 1 .. k : IsFinite(f[i])

\* linalg.norm(x): the Euclidean norm
norm(x, k) == fsqrt(FSum([i \in 1 .. k |-> fmul(x[i], x[i])], k))

\* ------------------------------------------------------------ rate model
\* storing a float in the rate matrix, which has the element type of spike:
\* an integer matrix truncates toward zero, and a value beyond the integer
\* range becomes what the platform's conversion gives
Store(v) ==
    IF dtype = "float" THEN v
    ELSE IF v >= FMAX THEN (IF dtype = "int_wrap" THEN -((FMAX \div ONE) * ONE)
                            ELSE (FMAX \div ONE) * ONE)
    ELSE Sign(v) * ((Abs(v) \div ONE) * ONE)

saferate(t, n, regressor_, post_mean_, post_cov_, beta_, alpha_) ==
    LET lograte ==
            fadd(fadd(fmul(regressor_[t], beta_[n]),
                      FSum([l \in Ls |-> fmul(post_mean_[t][l], alpha_[l][n])], NL)),
                 fmul(HALF,
                      FSum([l \in Ls |-> fmul(fmul(alpha_[l][n], alpha_[l][n]),
                                              post_cov_[l][t])], NL)))
        r == nan_to_num(fexp(lograte))
    IN  IF fgt(r, 0) THEN r ELSE MEPS

\* updaterate(rows, cols): the rate matrix with the entries (row, col)
\* recomputed from the parameters given
updaterate(rows, cols, rate_, post_mean_, post_cov_, beta_, alpha_) ==
    [t \in Ts |-> [n \in Ns |->
        IF t \in rows /\ n \in cols
        THEN Store(saferate(t, n, regressor, post_mean_, post_cov_, beta_, alpha_))
        ELSE rate_[t][n]]]

\* np.linalg.slogdet(V)[1] of a diagonal matrix
slogdet(v) == FSum([t \in Ts |-> flogabs(v[t])], NT)

lowerbound(spike_, beta_, alpha_, prior_mean_, prior_cov_, prior_inv_, post_mean_, post_cov_, regressor_, rate_) ==
    LET lik == FSum([t \in Ts |-> FSum([n \in Ns |->
                   fsub(fmul(spike_[t][n],
                             fadd(fmul(regressor_[t], beta_[n]),
                                  FSum([l \in Ls |-> fmul(post_mean_[t][l], alpha_[l][n])], NL))),
                        rate_[t][n])], N)], NT)
        d(l) == [t \in Ts |-> fsub(post_mean_[t][l], prior_mean_[t][l])]
        pen(l) ==
            fadd(fsub(fneg(fmul(HALF, FSum([t \in Ts |->
                          fmul(d(l)[t], fmul(prior_inv_[l][t], d(l)[t]))], NT))),
                      fmul(HALF, FSum([t \in Ts |->
                          fmul(prior_inv_[l][t], post_cov_[l][t])], NT))),
                 fmul(HALF, slogdet(post_cov_[l])))
    IN  fadd(lik, FSum([l \in Ls |-> pen(l)], NL))

\* the lower bound of the current state
LB == lowerbound(spike, beta, alpha, prior_mean, prior_cov, prior_inv,
                 post_mean, post_cov, regressor, rate)

\* ------------------------------------------------------- initialisation
\* prior_inv[l] = Vh.T diag(nan_to_num(|1 / s|)) U.T of a diagonal prior_cov[l]
pinv(c) == [t \in Ts |-> nan_to_num(fabs(fdiv(ONE, c[t])))]

Zero2(A, B) == [i \in A |-> [j \in B |-> 0]]

\* the entries of sqexpcov(T, w, var) at distance k from the diagonal:
\* var * exp(-w * k ** 2)
sqexpcov(w_, var_, k) == fmul(var_, fexp(fmul(fneg(w_), k * k * ONE)))

\* default_control
default_control ==
    ("maxiter" :> 200) @@ ("fixed-point iteration" :> 3)
        @@ ("tol" :> RoundDiv(ONE, 10000)) @@ ("verbose" :> FALSE)

\* control dicts with the keys the optimizer reads
ControlInputs ==
    { ("max iteration" :> m_) @@ ("fixed-point iteration" :> 3)
          @@ ("tol" :> tol_) @@ ("verbose" :> FALSE) : m_ \in {1, MaxIter}, tol_ \in {0, 3} }

\* maxiter = control['max iteration'], tol = control['tol']
maxiter == control["max iteration"]
tol == control["tol"]

BaseSpikes ==
    { [t \in Ts |-> [n \in Ns |-> IF n = 1 THEN 2 * ONE ELSE 0]] }
HyperSpikes ==
    { [t \in Ts |-> [n \in Ns |-> 4 * ONE]],
      [t \in Ts |-> [n \in Ns |-> IF t = 1 THEN 0 ELSE 16 * ONE]] }
SpikeInputs == BaseSpikes \cup HyperSpikes

B0Inputs ==
    { [n \in Ns |-> 0],
      [n \in Ns |-> IF n = 1 THEN -ONE ELSE ONE],
      [n \in Ns |-> 9 * ONE] }

A0Inputs ==
    { [l \in Ls |-> [n \in Ns |-> IF n = l THEN ONE ELSE 0]],
      [l \in Ls |-> [n \in Ns |-> ONE]] }

BaseM0 ==
    { Zero2(Ts, Ls),
      [t \in Ts |-> [l \in Ls |-> IF t = 1 THEN ONE ELSE 0]] }
HyperM0 ==
    { [t \in Ts |-> [l \in Ls |-> IF t = 1 THEN -4 * ONE ELSE 0]] }
M0Inputs == BaseM0 \cup HyperM0

\* the blocks are frozen in the order of the loop: none, beta, beta and
\* alpha, ..., all four
BaseFlags ==
    { [fixbeta |-> k >= 1, fixalpha |-> k >= 2, fixpostmean |-> k >= 3,
       fixpostcov |-> k >= 4] : k \in 0 .. 4 }
HyperFlags ==
    { [fixbeta |-> FALSE, fixalpha |-> fa, fixpostmean |-> TRUE, fixpostcov |-> fc] :
          fa \in BOOLEAN, fc \in BOOLEAN }
FlagInputs == BaseFlags \cup HyperFlags
Flags ==
    [fixbeta |-> args.fixbeta, fixalpha |-> args.fixalpha,
     fixpostmean |-> args.fixpostmean, fixpostcov |-> args.fixpostcov]

\* where the outer loop goes next
AfterHyper == <<"store", 0>>
AfterCov == IF args.hyper /\ it % 5 = 0 THEN <<"hyper", 0>> ELSE AfterHyper
AfterMean == IF ~args.fixpostcov THEN <<"cov", 1>> ELSE AfterCov
AfterAlpha == IF ~args.fixpostmean THEN <<"mean", 1>> ELSE AfterMean
AfterBeta == IF ~args.fixalpha THEN <<"alpha", 1>> ELSE AfterAlpha
\* a variant of the loop that runs the beta block whatever fixbeta says
LoopBody_IgnoresFixbeta == <<"beta", 1>>
\* if not fixbeta: ... else on to the alpha block
LoopBody == IF ~args.fixbeta THEN <<"beta", 1>> ELSE AfterBeta
\* a variant of the loop test that goes on after convergence
LoopHead_IgnoresConverged(converged_, it_) ==
    IF it_ < maxiter THEN LoopBody ELSE <<"done", 0>>
\* while not converged and it < maxiter
LoopHead(converged_, it_) ==
    IF ~converged_ /\ it_ < maxiter THEN LoopBody ELSE <<"done", 0>>

Goto(p) == pc' = p[1] /\ idx' = p[2]

\* the arguments of the call, but for control
Arguments ==
    /\ N \in {NN - 1, NN}
    /\ spike \in SpikeInputs
    /\ dtype \in {"float", "int_wrap", "int_sat"}
    /\ prior_mean = Zero2(Ts, Ls)
    /\ \E f \in FlagInputs, h \in BOOLEAN :
          args = [fixalpha |-> f["fixalpha"], fixbeta |-> f["fixbeta"],
                  fixpostmean |-> f["fixpostmean"], fixpostcov |-> f["fixpostcov"],
                  normofalpha |-> ONE, hyper |-> h]
    /\ a0 \in A0Inputs
    /\ b0 \in B0Inputs
    /\ m0 \in M0Inputs

\* the state when the outer loop is first reached (lines 107-213)
Locals ==
    /\ regressor = [t \in Ts |-> ONE]
    /\ variance = [l \in Ls |-> ONE]
    /\ w = [l \in Ls |-> 4 * ONE]
    /\ bmat = [t \in Ts |-> 0]
    /\ prior_cov = [l \in Ls |-> [t \in Ts |-> fmul(variance[l], sqexpcov(w[l], ONE, 0))]]
    /\ prior_inv = [l \in Ls |-> pinv(prior_cov[l])]
    /\ post_mean = m0
    /\ post_cov = prior_cov
    /\ alpha = a0
    /\ beta = b0
    /\ rate = updaterate(Ts, Ns, [t \in Ts |-> [n \in Ns |-> Empty]],
                         post_mean, post_cov, beta, alpha)
    /\ lbound = [i \in 0 .. maxiter - 1 |-> IF i = 0 THEN LB ELSE NInf]
    /\ it = 1
    /\ converged = FALSE
    /\ good_alpha = alpha
    /\ good_beta = beta
    /\ good_post_mean = post_mean
    /\ good_post_cov = post_cov
    /\ last_b = [n \in Ns |-> Empty]
    /\ last_a = [l \in Ls |-> [n \in Ns |-> Empty]]
    /\ last_m = [t \in Ts |-> [l \in Ls |-> Empty]]
    /\ last_rate = [t \in Ts |-> [n \in Ns |-> Empty]]
    /\ last_prior_cov = [l \in Ls |-> [t \in Ts |-> Empty]]
    /\ last_prior_inv = [l \in Ls |-> [t \in Ts |-> Empty]]
    /\ stepsize_alpha = [n \in Ns |-> ONE]
    /\ stepsize_beta = [n \in Ns |-> ONE]
    /\ stepsize_post_mean = [l \in Ls |-> ONE]
    /\ stepsize_w = [l \in Ls |-> ONE]
    /\ lb = lbound[0]
    /\ predict = 0
    /\ pc = LoopHead(FALSE, 1)[1]
    /\ idx = LoopHead(FALSE, 1)[2]
    /\ ev = [kind |-> "init", block |-> "", i |-> 0,
             before |-> <<params, rate, steps>>,
             goods |-> goods,
             priors |-> [prior_cov |-> prior_cov, prior_inv |-> prior_inv,
                         stepsize_w |-> stepsize_w],
             first |-> params,
             pre |-> [params |-> params, rate |-> rate, steps |-> steps, lb |-> lb],
             updated |-> {}, iters |-> 0, rejected |-> 0]

\* the calls explored: the base inputs with every element type and
\* tolerance; the narrow shape, N < L; and the calls that adapt the
\* hyperparameters, which run to the fifth iteration
Explored ==
    \/ /\ N = NN /\ ~args.hyper
       /\ spike \in BaseSpikes /\ m0 \in BaseM0 /\ Flags \in BaseFlags
    \/ /\ N < NN /\ ~args.hyper /\ dtype = "float" /\ tol = 0
       /\ spike \in BaseSpikes /\ m0 \in BaseM0 /\ Flags \in BaseFlags
    \/ /\ N = NN /\ args.hyper /\ dtype = "float" /\ tol = 0
       /\ spike \in HyperSpikes /\ b0 = [n \in Ns |-> 0]

\* an iteration limit that leaves no room for an iteration is explored
\* with the base inputs alone
ExploredLimits == maxiter < MaxIter => (N = NN /\ ~args.hyper /\ dtype = "float")

\* a call that passes its own control dict
Init ==
    /\ control \in ControlInputs
    /\ Arguments
    /\ Explored
    /\ ExploredLimits
    /\ Locals

\* no local of the function is bound yet
Unbound ==
    /\ regressor = "unbound"
    /\ variance = "unbound" /\ w = "unbound" /\ bmat = "unbound"
    /\ prior_cov = "unbound" /\ prior_inv = "unbound"
    /\ post_mean = "unbound" /\ post_cov = "unbound"
    /\ alpha = "unbound" /\ beta = "unbound" /\ rate = "unbound"
    /\ lbound = "unbound" /\ it = "unbound" /\ converged = "unbound"
    /\ good_alpha = "unbound" /\ good_beta = "unbound"
    /\ good_post_mean = "unbound" /\ good_post_cov = "unbound"
    /\ last_b = "unbound" /\ last_a = "unbound" /\ last_m = "unbound"
    /\ last_rate = "unbound"
    /\ last_prior_cov = "unbound" /\ last_prior_inv = "unbound"
    /\ stepsize_alpha = "unbound" /\ stepsize_beta = "unbound"
    /\ stepsize_post_mean = "unbound" /\ stepsize_w = "unbound"
    /\ lb = "unbound" /\ predict = "unbound"

\* a call that leaves control to its default: control['max iteration']
\* raises KeyError, default_control has the key 'maxiter'
InitDefaults ==
    /\ control = default_control
    /\ Arguments
    /\ Explored
    /\ Unbound
    /\ pc = "raised"
    /\ idx = 0
    /\ ev = [kind |-> "raise", block |-> "control", i |-> 0]

InitAny == Init \/ InitDefaults

\* --------------------------------------------------- acceptance protocol
\* a variant of the test that forgets the comparison with lbound[it - 1]
Rejected_NaNOnly(lb_) == IsNaN(lb_)
\* np.isnan(lb) or lb < lbound[it - 1]
Rejected(lb_) == IsNaN(lb_) \/ flt(lb_, lbound[it - 1])
\* a variant of the test that asks for the whole predicted increment
Overachieved_Whole(lb_, predict_) == fgt(fsub(lb_, lbound[it - 1]), predict_)
\* lb - lbound[it - 1] > thld * predict
Overachieved(lb_, predict_) == fgt(fsub(lb_, lbound[it - 1]), fmul(thld, predict_))
\* a variant of the shrinking that forgets to add eps
Deflate_NoFloor(s) == fmul(s, deflation)
\* stepsize *= deflation; stepsize += eps
Deflate(s) == fadd(fmul(s, deflation), eps)
\* stepsize *= inflation
Inflate(s) == fmul(s, inflation)

\* the history of the run: what the last step did and to which channel or
\* latent, the state just before it, the state and the lower bound just
\* before the last tentative step, and the latents whose loading vector an
\* accepted step has set, the number of outer iterations carried out, and the
\* number of steps rejected in the current outer iteration
Ev(k, b) ==
    ev' = [kind |-> k, block |-> b, i |-> idx,
           before |-> <<params, rate, steps>>,
           goods |-> goods,
           priors |-> IF k = "hypertry"
                      THEN [prior_cov |-> prior_cov, prior_inv |-> prior_inv,
                            stepsize_w |-> stepsize_w]
                      ELSE ev.priors,
           first |-> ev.first,
           pre |-> IF k = "try"
                   THEN [params |-> params, rate |-> rate, steps |-> steps, lb |-> LB]
                   ELSE ev.pre,
           updated |-> IF k = "accept" /\ b = "alpha"
                       THEN ev.updated \cup {idx} ELSE ev.updated,
           iters |-> IF k = "store" THEN ev.iters + 1 ELSE ev.iters,
           rejected |-> (IF ev.kind = "store" THEN 0 ELSE ev.rejected)
                        + (IF k = "reject" THEN 1 ELSE 0)]

\* ----------------------------------------------------------- beta block
grad_b(n) == FSum([t \in Ts |-> fmul(regressor[t], fsub(spike[t][n], rate[t][n]))], NT)
neg_hess_b(n) ==
    FSum([t \in Ts |-> fmul(regressor[t], fmul(regressor[t], rate[t][n]))], NT)

\* for n in range(N): the next channel, or the block after the loop
NextBeta == IF idx < N THEN <<"beta", idx + 1>> ELSE AfterBeta

WhenBetaBreak ==
    /\ pc = "beta"
    /\ flt(fabs(grad_b(idx)), eps)

\* a variant of the skip that shrinks the step size as a rejection does
BetaBreak_Deflates ==
    /\ pc = "beta"
    /\ flt(fabs(grad_b(idx)), eps)
    /\ stepsize_beta' = [stepsize_beta EXCEPT ![idx] = Deflate(stepsize_beta[idx])]
    /\ Goto(AfterBeta)
    /\ Ev("break", "beta")
    /\ UNCHANGED <<inputs, rollback, hypers, params, rate, trace, goods, lasts,
                   stepsize_alpha, stepsize_post_mean, lb, predict>>

\* if linalg.norm(grad_b, ord=np.inf) < eps: break
BetaBreak ==
    /\ WhenBetaBreak
    /\ Goto(AfterBeta)
    /\ Ev("break", "beta")
    /\ UNCHANGED <<inputs, rollback, hypers, params, rate, trace, goods, lasts, steps, lb, predict>>

WhenBetaSingular ==
    /\ pc = "beta"
    /\ ~flt(fabs(grad_b(idx)), eps)
    /\ IsFinite(grad_b(idx)) /\ neg_hess_b(idx) = 0

\* linalg.solve raises LinAlgError on the singular system: continue
BetaSingular ==
    /\ WhenBetaSingular
    /\ Goto(NextBeta)
    /\ Ev("singular", "beta")
    /\ UNCHANGED <<inputs, rollback, hypers, params, rate, trace, goods, lasts, steps, lb, predict>>

WhenBetaRaise ==
    /\ pc = "beta"
    /\ ~flt(fabs(grad_b(idx)), eps)
    /\ ~(IsFinite(grad_b(idx)) /\ IsFinite(neg_hess_b(idx)))

\* linalg.solve raises ValueError on a system with inf or NaN: not caught
BetaRaise ==
    /\ WhenBetaRaise
    /\ Goto(<<"raised", idx>>)
    /\ Ev("raise", "beta")
    /\ UNCHANGED <<inputs, rollback, hypers, params, rate, trace, goods, lasts, steps, lb, predict>>

WhenBetaTry ==
    /\ pc = "beta"
    /\ ~flt(fabs(grad_b(idx)), eps)
    /\ IsFinite(grad_b(idx)) /\ IsFinite(neg_hess_b(idx)) /\ neg_hess_b(idx) # 0

\* the tentative step: save, apply, refresh the rate, recompute the bound
BetaTry ==
    /\ WhenBetaTry
    /\ LET n == idx
           g == grad_b(n)
           h == neg_hess_b(n)
           delta_b == fmul(stepsize_beta[n], fdiv(g, h))
       IN  /\ last_b' = [last_b EXCEPT ![n] = beta[n]]
           /\ last_rate' = [t \in Ts |-> [last_rate[t] EXCEPT ![n] = rate[t][n]]]
           /\ predict' = fsub(fmul(g, delta_b),
                              fmul(HALF, fmul(delta_b, fmul(h, delta_b))))
           /\ beta' = [beta EXCEPT ![n] = fadd(beta[n], delta_b)]
           /\ rate' = updaterate(Ts, {n}, rate, post_mean, post_cov, beta', alpha)
           /\ lb' = lowerbound(spike, beta', alpha, prior_mean, prior_cov, prior_inv,
                               post_mean, post_cov, regressor, rate')
    /\ Goto(<<"beta_test", idx>>)
    /\ Ev("try", "beta")
    /\ UNCHANGED <<inputs, rollback, hypers, post_mean, post_cov, alpha, trace, goods,
                   last_a, last_m, steps>>

WhenBetaReject ==
    /\ pc = "beta_test"
    /\ Rejected(lb)

\* lb is NaN or below lbound[it - 1]: shrink the step size, recover
BetaReject ==
    /\ WhenBetaReject
    /\ stepsize_beta' = [stepsize_beta EXCEPT ![idx] = Deflate(stepsize_beta[idx])]
    /\ beta' = [beta EXCEPT ![idx] = last_b[idx]]
    /\ rate' = [t \in Ts |-> [rate[t] EXCEPT ![idx] = last_rate[t][idx]]]
    /\ Goto(NextBeta)
    /\ Ev("reject", "beta")
    /\ UNCHANGED <<inputs, rollback, hypers, post_mean, post_cov, alpha, trace, goods, lasts,
                   stepsize_alpha, stepsize_post_mean, lb, predict>>

WhenBetaAccept ==
    /\ pc = "beta_test"
    /\ ~Rejected(lb)

\* a variant of the accepted step in which beta shares its memory with b0
BetaAccept_WritesB0 ==
    /\ pc = "beta_test"
    /\ ~Rejected(lb)
    /\ stepsize_beta' = IF Overachieved(lb, predict)
                        THEN [stepsize_beta EXCEPT ![idx] = Inflate(stepsize_beta[idx])]
                        ELSE stepsize_beta
    /\ b0' = beta
    /\ Goto(NextBeta)
    /\ Ev("accept", "beta")
    /\ UNCHANGED <<N, spike, dtype, regressor, prior_mean, control, args, a0, m0,
                   rollback, hypers, params, rate, trace, goods, lasts,
                   stepsize_alpha, stepsize_post_mean, lb, predict>>
\* the step stands; grow the step size if it did better than predicted
BetaAccept ==
    /\ WhenBetaAccept
    /\ stepsize_beta' = IF Overachieved(lb, predict)
                        THEN [stepsize_beta EXCEPT ![idx] = Inflate(stepsize_beta[idx])]
                        ELSE stepsize_beta
    /\ Goto(NextBeta)
    /\ Ev("accept", "beta")
    /\ UNCHANGED <<inputs, rollback, hypers, params, rate, trace, goods, lasts,
                   stepsize_alpha, stepsize_post_mean, lb, predict>>

\* ------------------------------------------------- end of an iteration
\* np.max(np.abs(x - y)) over a two-level array
MaxAbsDiff(x, y, A, B) ==
    LET ds == {fabs(fsub(x[i][j], y[i][j])) : i \in A, j \in B}
    IN  IF NaN \in ds THEN NaN ELSE CHOOSE m \in ds : \A d \in ds : d <= m
MaxAbsDiff1(x, y, A) ==
    LET ds == {fabs(fsub(x[i], y[i])) : i \in A}
    IN  IF NaN \in ds THEN NaN ELSE CHOOSE m \in ds : \A d \in ds : d <= m

\* Python's max(a, b, c, d): the first argument, replaced by each later one
\* that compares greater
PyMax2(a, b) == IF fgt(b, a) THEN b ELSE a
\* a variant of the convergence test that leaves the posterior covariance out
change_IgnoresCov ==
    LET chg_alpha == IF args.fixalpha THEN 0 ELSE MaxAbsDiff(good_alpha, alpha, Ls, Ns)
        chg_beta == IF args.fixbeta THEN 0 ELSE MaxAbsDiff1(good_beta, beta, Ns)
        chg_post_mean == IF args.fixpostmean THEN 0
                         ELSE MaxAbsDiff(good_post_mean, post_mean, Ts, Ls)
    IN  PyMax2(PyMax2(chg_alpha, chg_beta), chg_post_mean)
change ==
    LET chg_alpha == IF args.fixalpha THEN 0 ELSE MaxAbsDiff(good_alpha, alpha, Ls, Ns)
        chg_beta == IF args.fixbeta THEN 0 ELSE MaxAbsDiff1(good_beta, beta, Ns)
        chg_post_mean == IF args.fixpostmean THEN 0
                         ELSE MaxAbsDiff(good_post_mean, post_mean, Ts, Ls)
        chg_post_cov == IF args.fixpostcov THEN 0
                        ELSE MaxAbsDiff(good_post_cov, post_cov, Ls, Ts)
    IN  PyMax2(PyMax2(PyMax2(chg_alpha, chg_beta), chg_post_mean), chg_post_cov)

WhenStoreBound ==
    /\ pc = "store"

\* a variant of the storing that writes over the entry of the iteration before
StoreBound_Overwrites ==
    /\ pc = "store"
    /\ lbound' = [lbound EXCEPT ![it - 1] = LB]
    /\ converged' = (converged \/ flt(change, tol))
    /\ good_alpha' = alpha
    /\ good_beta' = beta
    /\ good_post_mean' = post_mean
    /\ good_post_cov' = post_cov
    /\ it' = it + 1
    /\ Goto(LoopHead(converged', it'))
    /\ Ev("store", "")
    /\ UNCHANGED <<inputs, rollback, hypers, params, rate, lasts, steps, lb, predict>>
\* store the lower bound, check convergence, keep the iteration, it += 1
StoreBound ==
    /\ WhenStoreBound
    /\ lbound' = [lbound EXCEPT ![it] = LB]
    /\ converged' = (converged \/ flt(change, tol))
    /\ good_alpha' = alpha
    /\ good_beta' = beta
    /\ good_post_mean' = post_mean
    /\ good_post_cov' = post_cov
    /\ it' = it + 1
    /\ Goto(LoopHead(converged', it'))
    /\ Ev("store", "")
    /\ UNCHANGED <<inputs, rollback, hypers, params, rate, lasts, steps, lb, predict>>

\* ---------------------------------------------------------- alpha block
grad_a(l) ==
    [n \in Ns |->
        fsub(FSum([t \in Ts |-> fmul(fsub(spike[t][n], rate[t][n]), post_mean[t][l])], NT),
             fmul(FSum([t \in Ts |-> fmul(rate[t][n], post_cov[l][t])], NT),
                  alpha[l][n]))]

\* the diagonal of neg_hess_a
neg_hess_a(l) ==
    [n \in Ns |->
        fadd(fadd(fadd(
            FSum([t \in Ts |-> fmul(rate[t][n], fmul(post_mean[t][l], post_mean[t][l]))], NT),
            fmul(fmul(2 * ONE,
                      FSum([t \in Ts |-> fmul(rate[t][n],
                                              fmul(post_mean[t][l], post_cov[l][t]))], NT)),
                 alpha[l][n])),
            fmul(FSum([t \in Ts |-> fmul(rate[t][n],
                                         fmul(post_cov[l][t], post_cov[l][t]))], NT),
                 fmul(alpha[l][n], alpha[l][n]))),
            FSum([t \in Ts |-> fmul(rate[t][n], post_cov[l][t])], NT))]

NextAlpha == IF idx < NL THEN <<"alpha", idx + 1>> ELSE AfterAlpha

\* linalg.solve(neg_hess_a, grad_a) can be computed
AlphaSolvable(l) ==
    /\ AllFinite(grad_a(l), N) /\ AllFinite(neg_hess_a(l), N)
    /\ \A n \in Ns : neg_hess_a(l)[n] # 0

\* a variant that takes every system for singular
AlphaIsSingular_Always(l) == TRUE
\* linalg.solve raises LinAlgError: an exactly singular diagonal system
AlphaIsSingular(l) ==
    /\ AllFinite(grad_a(l), N) /\ AllFinite(neg_hess_a(l), N)
    /\ \E n \in Ns : neg_hess_a(l)[n] = 0

WhenAlphaBreak ==
    /\ pc = "alpha"
    /\ GradSmall(grad_a(idx), N)

AlphaBreak ==
    /\ WhenAlphaBreak
    /\ Goto(AfterAlpha)
    /\ Ev("break", "alpha")
    /\ UNCHANGED <<inputs, rollback, hypers, params, rate, trace, goods, lasts, steps, lb, predict>>

WhenAlphaSingular ==
    /\ pc = "alpha"
    /\ ~GradSmall(grad_a(idx), N)
    /\ idx \in DOMAIN stepsize_alpha /\ AlphaIsSingular(idx)

AlphaSingular ==
    /\ WhenAlphaSingular
    /\ Goto(NextAlpha)
    /\ Ev("singular", "alpha")
    /\ UNCHANGED <<inputs, rollback, hypers, params, rate, trace, goods, lasts, steps, lb, predict>>

WhenAlphaRaise ==
    /\ pc = "alpha"
    /\ ~GradSmall(grad_a(idx), N)
    /\ ~(idx \in DOMAIN stepsize_alpha /\ (AlphaIsSingular(idx) \/ AlphaSolvable(idx)))

\* not caught: ValueError of linalg.solve on inf or NaN, and IndexError of
\* stepsize_alpha[l], which has N entries
AlphaRaise ==
    /\ WhenAlphaRaise
    /\ Goto(<<"raised", idx>>)
    /\ Ev("raise", "alpha")
    /\ UNCHANGED <<inputs, rollback, hypers, params, rate, trace, goods, lasts, steps, lb, predict>>

\* a variant of the alpha step that leaves out the division by the norm
Renormalize_Skip(x) == x
\* alpha[l, :] += delta_a; alpha[l, :] /= linalg.norm(alpha[l, :]) / normofalpha
Renormalize(x) ==
    LET d == fdiv(norm(x, N), args.normofalpha)
    IN  [n \in Ns |-> fdiv(x[n], d)]

WhenAlphaTry ==
    /\ pc = "alpha"
    /\ ~GradSmall(grad_a(idx), N)
    /\ AlphaSolvable(idx) /\ idx \in DOMAIN stepsize_alpha

AlphaTry ==
    /\ WhenAlphaTry
    /\ LET l == idx
           g == grad_a(l)
           h == neg_hess_a(l)
           step == [n \in Ns |-> fmul(stepsize_alpha[l], fdiv(g[n], h[n]))]
           new == Renormalize([n \in Ns |-> fadd(alpha[l][n], step[n])])
           delta_a == [n \in Ns |-> fsub(new[n], alpha[l][n])]
       IN  /\ last_a' = [last_a EXCEPT ![l] = alpha[l]]
           /\ last_rate' = rate
           /\ alpha' = [alpha EXCEPT ![l] = new]
           /\ predict' = fsub(FSum([n \in Ns |-> fmul(g[n], delta_a[n])], N),
                              fmul(HALF, FSum([n \in Ns |->
                                  fmul(delta_a[n], fmul(h[n], delta_a[n]))], N)))
           /\ rate' = updaterate(Ts, Ns, rate, post_mean, post_cov, beta, alpha')
           /\ lb' = lowerbound(spike, beta, alpha', prior_mean, prior_cov, prior_inv,
                               post_mean, post_cov, regressor, rate')
    /\ Goto(<<"alpha_test", idx>>)
    /\ Ev("try", "alpha")
    /\ UNCHANGED <<inputs, rollback, hypers, post_mean, post_cov, beta, trace, goods,
                   last_b, last_m, steps>>

\* np.isnan(lb) or lb - lbound[it - 1] < 0
AlphaRejected(lb_) == IsNaN(lb_) \/ flt(fsub(lb_, lbound[it - 1]), 0)

WhenAlphaReject ==
    /\ pc = "alpha_test"
    /\ AlphaRejected(lb)

\* a variant of the recovery that forgets rate[:] = last_rate[:]
AlphaReject_KeepsRate ==
    /\ pc = "alpha_test"
    /\ AlphaRejected(lb)
    /\ stepsize_alpha' = [stepsize_alpha EXCEPT ![idx] = Deflate(stepsize_alpha[idx])]
    /\ alpha' = [alpha EXCEPT ![idx] = last_a[idx]]
    /\ Goto(NextAlpha)
    /\ Ev("reject", "alpha")
    /\ UNCHANGED <<inputs, rollback, hypers, post_mean, post_cov, beta, rate, trace, goods, lasts,
                   stepsize_beta, stepsize_post_mean, lb, predict>>

\* lb is NaN or lb - lbound[it - 1] < 0: shrink the step size, recover
AlphaReject ==
    /\ WhenAlphaReject
    /\ stepsize_alpha' = [stepsize_alpha EXCEPT ![idx] = Deflate(stepsize_alpha[idx])]
    /\ alpha' = [alpha EXCEPT ![idx] = last_a[idx]]
    /\ rate' = last_rate
    /\ Goto(NextAlpha)
    /\ Ev("reject", "alpha")
    /\ UNCHANGED <<inputs, rollback, hypers, post_mean, post_cov, beta, trace, goods, lasts,
                   stepsize_beta, stepsize_post_mean, lb, predict>>

WhenAlphaAccept ==
    /\ pc = "alpha_test"
    /\ ~AlphaRejected(lb)

AlphaAccept ==
    /\ WhenAlphaAccept
    /\ stepsize_alpha' = IF Overachieved(lb, predict)
                         THEN [stepsize_alpha EXCEPT ![idx] = Inflate(stepsize_alpha[idx])]
                         ELSE stepsize_alpha
    /\ Goto(NextAlpha)
    /\ Ev("accept", "alpha")
    /\ UNCHANGED <<inputs, rollback, hypers, params, rate, trace, goods, lasts,
                   stepsize_beta, stepsize_post_mean, lb, predict>>

\* ------------------------------------------------- Woodbury factorisation
\* w = np.dot(rate, alpha[l, :] ** 2)
wvec(l) == [t \in Ts |-> FSum([n \in Ns |->
               fmul(rate[t][n], fmul(alpha[l][n], alpha[l][n]))], N)]
\* the diagonal of bmat = eyeT + wsqrt * prior_cov[l] * wsqrt
bmatd(l) == [t \in Ts |->
               fadd(ONE, fmul(fmul(fsqrt(wvec(l)[t]), prior_cov[l][t]), fsqrt(wvec(l)[t])))]
\* linalg.cholesky(bmat, lower=True) raises: ValueError on inf or NaN,
\* LinAlgError on a matrix that is not positive definite
CholeskyFails(l) == \E t \in Ts : ~IsFinite(bmatd(l)[t]) \/ bmatd(l)[t] <= 0
\* prior_cov[l] - prior_cov[l] * wsqrt * lstsq(bchol.T, lstsq(bchol, wsqrt * prior_cov[l]))
woodbury(l) ==
    [t \in Ts |->
        LET sw == fsqrt(wvec(l)[t])
            c == fsqrt(bmatd(l)[t])
            x == fdiv(fdiv(fmul(sw, prior_cov[l][t]), c), c)
        IN  fsub(prior_cov[l][t], fmul(fmul(prior_cov[l][t], sw), x))]

\* ------------------------------------------------- posterior mean block
grad_m(l) ==
    [t \in Ts |->
        fsub(FSum([n \in Ns |-> fmul(fsub(spike[t][n], rate[t][n]), alpha[l][n])], N),
             fmul(prior_inv[l][t], fsub(post_mean[t][l], prior_mean[t][l])))]

NextMean == IF idx < NL THEN <<"mean", idx + 1>> ELSE AfterMean

\* linalg.lstsq(hinv, delta_m)[0] of a diagonal hinv: the least-squares
\* solution of least norm
lstsqd(h, d) == [t \in Ts |-> IF h[t] = 0 THEN 0 ELSE fdiv(d[t], h[t])]

\* a variant of the posterior-mean step that leaves out the centring
Centre_Skip(x) == x
\* post_mean[:, l] + delta_m, then minus its np.mean
Centre(x) ==
    LET mean == fdiv(FSum(x, NT), NT * ONE)
    IN  [t \in Ts |-> fsub(x[t], mean)]

MeanStep(l) ==
    LET g == grad_m(l)
        hinv == woodbury(l)
        step == [t \in Ts |-> fmul(stepsize_post_mean[l], fmul(hinv[t], g[t]))]
    IN  Centre([t \in Ts |-> fadd(post_mean[t][l], step[t])])

WhenMeanRaise ==
    /\ pc = "mean"
    /\ ~(~CholeskyFails(idx)
         /\ (GradSmall(grad_m(idx), NT) \/ AllFinite(MeanStep(idx), NT)))

\* linalg.cholesky(bmat) raises, or linalg.lstsq(hinv, delta_m) raises
\* ValueError on inf or NaN: neither call is inside the try
MeanRaise ==
    /\ WhenMeanRaise
    /\ w' = wvec(idx)
    /\ bmat' = bmatd(idx)
    /\ Goto(<<"raised", idx>>)
    /\ Ev("raise", "mean")
    /\ UNCHANGED <<inputs, rollback, variance, prior_cov, prior_inv, params, rate, trace, goods,
                   lasts, steps, lb, predict>>

WhenMeanBreak ==
    /\ pc = "mean"
    /\ ~CholeskyFails(idx)
    /\ GradSmall(grad_m(idx), NT)

MeanBreak ==
    /\ WhenMeanBreak
    /\ w' = wvec(idx)
    /\ bmat' = bmatd(idx)
    /\ Goto(AfterMean)
    /\ Ev("break", "mean")
    /\ UNCHANGED <<inputs, rollback, variance, prior_cov, prior_inv, params, rate, trace, goods,
                   lasts, steps, lb, predict>>

WhenMeanTry ==
    /\ pc = "mean"
    /\ ~CholeskyFails(idx)
    /\ ~GradSmall(grad_m(idx), NT)
    /\ AllFinite(MeanStep(idx), NT)

MeanTry ==
    /\ WhenMeanTry
    /\ LET l == idx
           g == grad_m(l)
           hinv == woodbury(l)
           new == MeanStep(l)
           delta_m == [t \in Ts |-> fsub(new[t], post_mean[t][l])]
           sol == lstsqd(hinv, delta_m)
       IN  /\ last_m' = [t \in Ts |-> [last_m[t] EXCEPT ![l] = post_mean[t][l]]]
           /\ last_rate' = rate
           /\ post_mean' = [t \in Ts |-> [post_mean[t] EXCEPT ![l] = new[t]]]
           /\ predict' = fsub(FSum([t \in Ts |-> fmul(g[t], delta_m[t])], NT),
                              fmul(HALF, FSum([t \in Ts |-> fmul(delta_m[t], sol[t])], NT)))
           /\ rate' = updaterate(Ts, Ns, rate, post_mean', post_cov, beta, alpha)
           /\ lb' = lowerbound(spike, beta, alpha, prior_mean, prior_cov, prior_inv,
                               post_mean', post_cov, regressor, rate')
    /\ w' = wvec(idx)
    /\ bmat' = bmatd(idx)
    /\ Goto(<<"mean_test", idx>>)
    /\ Ev("try", "mean")
    /\ UNCHANGED <<inputs, rollback, variance, prior_cov, prior_inv, post_cov, alpha, beta, trace,
                   goods, last_b, last_a, steps>>

WhenMeanReject ==
    /\ pc = "mean_test"
    /\ Rejected(lb)

MeanReject ==
    /\ WhenMeanReject
    /\ stepsize_post_mean' =
           [stepsize_post_mean EXCEPT ![idx] = Deflate(stepsize_post_mean[idx])]
    /\ post_mean' = [t \in Ts |-> [post_mean[t] EXCEPT ![idx] = last_m[t][idx]]]
    /\ rate' = last_rate
    /\ Goto(NextMean)
    /\ Ev("reject", "mean")
    /\ UNCHANGED <<inputs, rollback, hypers, post_cov, alpha, beta, trace, goods, lasts,
                   stepsize_alpha, stepsize_beta, lb, predict>>

WhenMeanAccept ==
    /\ pc = "mean_test"
    /\ ~Rejected(lb)

MeanAccept ==
    /\ WhenMeanAccept
    /\ stepsize_post_mean' =
           IF Overachieved(lb, predict)
           THEN [stepsize_post_mean EXCEPT ![idx] = Inflate(stepsize_post_mean[idx])]
           ELSE stepsize_post_mean
    /\ Goto(NextMean)
    /\ Ev("accept", "mean")
    /\ UNCHANGED <<inputs, rollback, hypers, params, rate, trace, goods, lasts,
                   stepsize_alpha, stepsize_beta, lb, predict>>

\* -------------------------------------------- posterior covariance block
NextCov == IF idx < NL THEN <<"cov", idx + 1>> ELSE AfterCov

WhenCovRaise ==
    /\ pc = "cov"
    /\ CholeskyFails(idx)

\* linalg.cholesky(bmat) raises
CovRaise ==
    /\ WhenCovRaise
    /\ w' = wvec(idx)
    /\ bmat' = bmatd(idx)
    /\ Goto(<<"raised", idx>>)
    /\ Ev("raise", "cov")
    /\ UNCHANGED <<inputs, rollback, variance, prior_cov, prior_inv, params, rate, trace, goods,
                   lasts, steps, lb, predict>>

WhenCovUpdate ==
    /\ pc = "cov"
    /\ ~CholeskyFails(idx)

\* post_cov[l] = the Woodbury update; updaterate(range(T), range(N))
CovUpdate ==
    /\ WhenCovUpdate
    /\ post_cov' = [post_cov EXCEPT ![idx] = woodbury(idx)]
    /\ rate' = updaterate(Ts, Ns, rate, post_mean, post_cov', beta, alpha)
    /\ w' = wvec(idx)
    /\ bmat' = bmatd(idx)
    /\ Goto(NextCov)
    /\ Ev("update", "cov")
    /\ UNCHANGED <<inputs, rollback, variance, prior_cov, prior_inv, post_mean, alpha, beta, trace,
                   goods, lasts, steps, lb, predict>>

\* --------------------------------------------------- hyperparameter step
NextHyper == IF idx < NL THEN <<"hyper", idx + 1>> ELSE AfterHyper

WhenHyperSave ==
    /\ pc = "hyper" /\ idx = 0

\* last_prior_cov[:] = prior_cov; last_prior_inv[:] = prior_inv
HyperSave ==
    /\ WhenHyperSave
    /\ last_prior_cov' = prior_cov
    /\ last_prior_inv' = prior_inv
    /\ Goto(<<"hyper", 1>>)
    /\ Ev("save", "hyper")
    /\ UNCHANGED <<inputs, hypers, stepsize_w, params, rate, trace, goods, lasts, steps,
                   lb, predict>>

\* new_var: the closed-form variance of latent l
new_var(l) ==
    LET d == [t \in Ts |-> fsub(post_mean[t][l], prior_mean[t][l])]
        quad == FSum([t \in Ts |-> fmul(d[t], fmul(prior_inv[l][t], d[t]))], NT)
        tr == FSum([t \in Ts |-> fmul(prior_inv[l][t], post_cov[l][t])], NT)
    IN  fdiv(fmul(variance[l], fadd(quad, tr)), NT * ONE)

\* grad_w, with whatever the name bmat is bound to
grad_w(l) ==
    LET d == [t \in Ts |-> fsub(post_mean[t][l], prior_mean[t][l])]
        kb == [t \in Ts |-> fmul(prior_cov[l][t], bmat[t])]
        amat == [t \in Ts |-> fmul(fmul(prior_inv[l][t], kb[t]), prior_inv[l][t])]
    IN  fdiv(fsub(fadd(FSum([t \in Ts |-> fmul(d[t], fmul(amat[t], d[t]))], NT),
                       FSum([t \in Ts |-> fmul(amat[t], post_cov[l][t])], NT)),
                  FSum([t \in Ts |-> fmul(prior_inv[l][t], kb[t])], NT)),
             2 * ONE)

\* w[l] += stepsize_w[l] * grad_w, on whatever the name w is bound to
new_w(l) == fadd(w[l], fmul(stepsize_w[l], grad_w(l)))

\* linalg.svd(prior_cov[l]) raises ValueError on inf or NaN
SvdFails(l) ==
    \E k \in 0 .. NT - 1 : ~IsFinite(sqexpcov(new_w(l), new_var(l), k))

\* the rebuilt prior covariance is diagonal on the grid
StaysDiagonal(l) ==
    \A k \in 1 .. NT - 1 : sqexpcov(new_w(l), new_var(l), k) = 0

WhenHyperRaise ==
    /\ pc = "hyper" /\ idx > 0
    /\ SvdFails(idx)

HyperRaise ==
    /\ WhenHyperRaise
    /\ variance' = [variance EXCEPT ![idx] = new_var(idx)]
    /\ w' = [w EXCEPT ![idx] = new_w(idx)]
    /\ prior_cov' = [prior_cov EXCEPT ![idx] =
                         [t \in Ts |-> sqexpcov(new_w(idx), new_var(idx), 0)]]
    /\ Goto(<<"raised", idx>>)
    /\ Ev("raise", "hyper")
    /\ UNCHANGED <<inputs, rollback, bmat, prior_inv, params, rate, trace, goods, lasts,
                   steps, lb, predict>>

WhenHyperLeaves ==
    /\ pc = "hyper" /\ idx > 0
    /\ ~SvdFails(idx) /\ ~StaysDiagonal(idx)

\* the rebuilt prior covariance has entries off the diagonal: the run leaves
\* the shapes modelled
HyperLeaves ==
    /\ WhenHyperLeaves
    /\ Goto(<<"outside", idx>>)
    /\ Ev("leave", "hyper")
    /\ UNCHANGED <<inputs, rollback, hypers, params, rate, trace, goods, lasts, steps,
                   lb, predict>>

WhenHyperTry ==
    /\ pc = "hyper" /\ idx > 0
    /\ ~SvdFails(idx) /\ StaysDiagonal(idx)

\* variance[l], w[l], prior_cov[l], prior_inv[l] are set; the bound is recomputed
HyperTry ==
    /\ WhenHyperTry
    /\ variance' = [variance EXCEPT ![idx] = new_var(idx)]
    /\ w' = [w EXCEPT ![idx] = new_w(idx)]
    /\ prior_cov' = [prior_cov EXCEPT ![idx] =
                         [t \in Ts |-> sqexpcov(new_w(idx), new_var(idx), 0)]]
    /\ prior_inv' = [prior_inv EXCEPT ![idx] = pinv(prior_cov'[idx])]
    /\ lb' = lowerbound(spike, beta, alpha, prior_mean, prior_cov', prior_inv',
                        post_mean, post_cov, regressor, rate)
    /\ Goto(<<"hyper_test", idx>>)
    /\ Ev("hypertry", "hyper")
    /\ UNCHANGED <<inputs, rollback, bmat, params, rate, trace, goods, lasts, steps,
                   predict>>

WhenHyperReject ==
    /\ pc = "hyper_test"
    /\ Rejected(lb)

\* a variant of the recovery that brings back the covariance alone
HyperReject_KeepsPrecision ==
    /\ pc = "hyper_test"
    /\ Rejected(lb)
    /\ prior_cov' = [prior_cov EXCEPT ![idx] = last_prior_cov[idx]]
    /\ stepsize_w' = [stepsize_w EXCEPT ![idx] = fmul(stepsize_w[idx], HALF)]
    /\ Goto(NextHyper)
    /\ Ev("hyperreject", "hyper")
    /\ UNCHANGED <<inputs, variance, w, bmat, prior_inv, last_prior_cov, last_prior_inv,
                   params, rate, trace, goods, lasts, steps, lb, predict>>
\* lb is NaN or below lbound[it - 1]: recover the prior, halve the step size
HyperReject ==
    /\ WhenHyperReject
    /\ prior_cov' = [prior_cov EXCEPT ![idx] = last_prior_cov[idx]]
    /\ prior_inv' = [prior_inv EXCEPT ![idx] = last_prior_inv[idx]]
    /\ stepsize_w' = [stepsize_w EXCEPT ![idx] = fmul(stepsize_w[idx], HALF)]
    /\ Goto(NextHyper)
    /\ Ev("hyperreject", "hyper")
    /\ UNCHANGED <<inputs, variance, w, bmat, last_prior_cov, last_prior_inv, params,
                   rate, trace, goods, lasts, steps, lb, predict>>

WhenHyperAccept ==
    /\ pc = "hyper_test"
    /\ ~Rejected(lb)

HyperAccept ==
    /\ WhenHyperAccept
    /\ Goto(NextHyper)
    /\ Ev("hyperaccept", "hyper")
    /\ UNCHANGED <<inputs, rollback, hypers, params, rate, trace, goods, lasts, steps,
                   lb, predict>>

\* ---------------------------------------------------------- the program
Next ==
    \/ BetaBreak \/ BetaSingular \/ BetaRaise \/ BetaTry \/ BetaReject \/ BetaAccept
    \/ AlphaBreak \/ AlphaSingular \/ AlphaRaise \/ AlphaTry \/ AlphaReject \/ AlphaAccept
    \/ MeanRaise \/ MeanBreak \/ MeanTry \/ MeanReject \/ MeanAccept
    \/ CovRaise \/ CovUpdate
    \/ HyperSave \/ HyperRaise \/ HyperLeaves \/ HyperTry \/ HyperReject \/ HyperAccept
    \/ StoreBound

Spec == Init /\ [][Next]_vars

\* the calls of Spec and the calls that leave control to its default
SpecDefaults == InitAny /\ [][Next]_vars

\* ============================================================ properties
\* a >= b on doubles: false when either is NaN
fge(a, b) == a # NaN /\ b # NaN /\ a >= b

\* C1: every entry of the returned lower-bound trace is at least the entry
\* before it: trace[i] >= trace[i - 1] for every i >= 1.
C1_TraceNonDecreasing == \A i \in 1 .. it - 1 : fge(lbound[i], lbound[i - 1])

\* C2: when a tentative beta, alpha or posterior-mean step has been
\* rejected, every parameter block and every rate entry equals its value
\* immediately before the step.
C2_RejectRestores ==
    ev.kind = "reject" => params = ev.pre.params /\ rate = ev.pre.rate

\* C2 witness: a rejected step whose tentative state had another lower bound
\* than the state it was rolled back to
C2_Witness == ev.kind = "reject" /\ ~IsNaN(lb) /\ lb # LB

\* the step size of the block and index of the last step, in a triple of
\* the three step-size vectors
StepOf(s) ==
    IF ev.block = "alpha" THEN s[1][ev.i]
    ELSE IF ev.block = "beta" THEN s[2][ev.i] ELSE s[3][ev.i]

\* C3 as stated: after every rejected step the block's step size is
\* strictly smaller than before the step, and it is not zero.
C3_StrictlySmaller ==
    ev.kind = "reject" =>
        StepOf(steps) < StepOf(ev.pre.steps) /\ StepOf(steps) # 0

\* C3 amended: after every rejected step the block's step size is not
\* larger than before, is strictly smaller whenever it was finite and above
\* 2 * eps, and is never below 2 * eps, so never zero.
C3_ShrinksToFloor ==
    ev.kind = "reject" =>
        /\ StepOf(steps) <= StepOf(ev.pre.steps)
        /\ (IsFinite(StepOf(ev.pre.steps)) /\ StepOf(ev.pre.steps) > 2 * eps
               => StepOf(steps) < StepOf(ev.pre.steps))
        /\ StepOf(steps) >= 2 * eps

\* C3 witness: a rejection that found the step size at 2 * eps and left it
\* there
C3_Witness ==
    ev.kind = "reject" /\ StepOf(ev.pre.steps) = 2 * eps /\ StepOf(steps) = 2 * eps

\* C4: every value stored in the rate matrix is strictly positive and finite.
C4_RatePositiveFinite ==
    \A t \in Ts, n \in Ns : rate[t][n] > 0 /\ IsFinite(rate[t][n])

\* C5: every entry of the rate matrix equals saferate evaluated on the
\* current beta, alpha, posterior mean and posterior covariance.
C5_RateConsistent ==
    \A t \in Ts, n \in Ns :
        rate[t][n] = saferate(t, n, regressor, post_mean, post_cov, beta, alpha)

NormIsTarget(x) ==
    LET d == norm(x, N) - args.normofalpha
    IN  IsFinite(norm(x, N)) /\ Abs(d) <= N * MEPS

\* C7: after an accepted alpha step for latent l the loading vector
\* alpha[l, :] has the norm normofalpha, and whenever an outer iteration has
\* ended every loading vector that an accepted step has set has that norm.
C7_LoadingNorm ==
    /\ (ev.kind = "accept" /\ ev.block = "alpha") => NormIsTarget(alpha[ev.i])
    /\ ev.kind = "store" => \A l \in ev.updated : NormIsTarget(alpha[l])

\* C7 witness: an outer iteration has ended with a loading vector set by an
\* accepted step that changed it from a vector of another norm
C7_Witness ==
    /\ ev.kind = "store"
    /\ \E l \in ev.updated : alpha[l] # a0[l] /\ ~NormIsTarget(a0[l])

\* the mean of column l of post_mean is zero up to the rounding of the mean
\* and of the subtractions: within half a grid step for each entry
ColumnMeanZero(l) ==
    LET sum == FSum([t \in Ts |-> post_mean[t][l]], NT)
    IN  IsFinite(sum) /\ 2 * Abs(sum) <= NT * MEPS

\* C8: after an accepted posterior-mean step for latent l the column
\* post_mean[:, l] has zero mean, and after a rejected one the column equals
\* its value before the step.
C8_ColumnCentred ==
    /\ (ev.kind = "accept" /\ ev.block = "mean") => ColumnMeanZero(ev.i)
    /\ (ev.kind = "reject" /\ ev.block = "mean") =>
           \A t \in Ts : post_mean[t][ev.i] = ev.pre.params[1][t][ev.i]

\* C8 witness: an accepted posterior-mean step has moved a column whose mean
\* was not zero
C8_Witness ==
    /\ ev.kind = "accept" /\ ev.block = "mean"
    /\ \E t \in Ts : post_mean[t][ev.i] # ev.pre.params[1][t][ev.i]
    /\ FSum([t \in Ts |-> ev.pre.params[1][t][ev.i]], NT) >= ONE

\* the block about to run finds the infinity-norm of its gradient below eps
GradientBelowEps ==
    \/ pc = "beta" /\ flt(fabs(grad_b(idx)), eps)
    \/ pc = "alpha" /\ GradSmall(grad_a(idx), N)
    \/ pc = "mean" /\ GradSmall(grad_m(idx), NT)

\* C9: a block that runs with the infinity-norm of its gradient below eps
\* changes no parameter, no rate entry, no step size and nothing of the
\* lower-bound trace.
C9_SmallGradientNoChange ==
    [][GradientBelowEps => UNCHANGED <<params, rate, steps, trace>>]_vars

\* C9 witness: a posterior-mean block has been left at its gradient test in
\* a later outer iteration
C9_Witness == ev.kind = "break" /\ ev.block = "mean" /\ it > 1

\* C10: when the linear algebra of the Newton direction of the beta, alpha or
\* posterior-mean block fails, the block is skipped: no exception leaves the
\* optimizer, and no parameter, rate entry or step size has changed.
C10_FailureSkips ==
    (ev.kind \in {"singular", "raise"} /\ ev.block \in {"beta", "alpha", "mean"}) =>
        pc # "raised" /\ <<params, rate, steps>> = ev.before

\* C11: a call that does not override control does not fail: it reads its
\* maximum iteration count and tolerance from default_control and enters
\* the outer loop.
C11_DefaultControlRuns == control = default_control => pc # "raised"

\* every entry of the non-frozen blocks p differs from the snapshot g by
\* less than tol (the largest of no changes at all is 0)
ChangeBelowTol(g, p) ==
    /\ flt(0, tol)
    /\ ~args.fixalpha => \A l \in Ls, n \in Ns : flt(fabs(fsub(g[1][l][n], p[3][l][n])), tol)
    /\ ~args.fixbeta => \A n \in Ns : flt(fabs(fsub(g[2][n], p[4][n])), tol)
    /\ ~args.fixpostmean => \A t \in Ts, l \in Ls : flt(fabs(fsub(g[3][t][l], p[1][t][l])), tol)
    /\ ~args.fixpostcov => \A l \in Ls, t \in Ts : flt(fabs(fsub(g[4][l][t], p[2][l][t])), tol)

\* C12: the optimizer returns converged = true if and only if, in the last
\* outer iteration it ran, every non-frozen block differed from the snapshot
\* of the previous iteration by less than the tolerance; a run that returns
\* with converged = false has used up its iterations.
C12_ConvergedIffSmallChange ==
    (pc = "done" /\ ev.kind = "store") =>
        /\ converged <=> ChangeBelowTol(ev.goods, ev.before[1])
        /\ ~converged => it >= maxiter

\* C12 witness: a run that returns converged after an iteration that changed
\* a block.
C12_Witness ==
    /\ pc = "done" /\ ev.kind = "store" /\ converged /\ it > 2
    /\ alpha # a0 /\ ~args.fixpostcov

\* C13: for every input the outer loop ends in the converged state or at the
\* iteration limit, after no more iterations than maxiter: no run is cut
\* short before that, and the counter never passes maxiter.
C13_LoopRunsToItsEnd == pc # "raised" /\ it <= maxiter

\* C14: a block whose freeze toggle is set is never modified: at every point
\* of the fit it equals its initial value (b0, a0, the initial posterior mean,
\* the initial posterior covariance), and so does its snapshot, so that it
\* adds no change to the convergence test.
C14_FrozenBlocksKeepInitialValue ==
    /\ args.fixbeta => beta = b0 /\ good_beta = b0
    /\ args.fixalpha => alpha = a0 /\ good_alpha = a0
    /\ args.fixpostmean => post_mean = m0 /\ good_post_mean = m0
    /\ args.fixpostcov => post_cov = ev.first[2] /\ good_post_cov = ev.first[2]

\* C14 witness: a run that returns with beta frozen after its other blocks
\* have moved.
C14_Witness ==
    /\ pc = "done" /\ args.fixbeta /\ ~args.fixalpha
    /\ alpha # a0 /\ post_mean # m0 /\ post_cov # ev.first[2]

\* C15: the observations, the prior mean and the design matrix are written by
\* no step of the fit, and neither are the initial values a0, b0 and m0 that
\* the caller gave.
C15_InputsNeverWritten ==
    [][UNCHANGED <<spike, prior_mean, regressor, a0, b0, m0>>]_vars

\* C15 witness: a run that returns after all three Newton blocks have moved
\* away from the initial values and a step size has been adapted.
C15_Witness ==
    /\ pc = "done" /\ beta # b0 /\ alpha # a0 /\ post_mean # m0
    /\ stepsize_post_mean # [l \in Ls |-> ONE]

\* how many steps of the program can be taken next
One(b) == IF b THEN 1 ELSE 0
Decisions ==
    One(WhenBetaBreak) + One(WhenBetaSingular) + One(WhenBetaRaise) + One(WhenBetaTry)
    + One(WhenBetaReject) + One(WhenBetaAccept)
    + One(WhenAlphaBreak) + One(WhenAlphaSingular) + One(WhenAlphaRaise)
    + One(WhenAlphaTry) + One(WhenAlphaReject) + One(WhenAlphaAccept)
    + One(WhenMeanRaise) + One(WhenMeanBreak) + One(WhenMeanTry)
    + One(WhenMeanReject) + One(WhenMeanAccept)
    + One(WhenCovRaise) + One(WhenCovUpdate)
    + One(WhenHyperSave) + One(WhenHyperRaise) + One(WhenHyperLeaves)
    + One(WhenHyperTry) + One(WhenHyperReject) + One(WhenHyperAccept)
    + One(WhenStoreBound)

C17_HyperRollback ==
    /\ ev.kind = "hyperreject" =>
          /\ prior_cov[ev.i] = ev.priors.prior_cov[ev.i]
          /\ prior_inv[ev.i] = ev.priors.prior_inv[ev.i]
          /\ stepsize_w[ev.i] < ev.priors.stepsize_w[ev.i]
    /\ ev.kind \in {"hyperreject", "hyperaccept"} =>
          /\ prior_inv[ev.i] = [t \in Ts |-> nan_to_num(fabs(fdiv(ONE, prior_cov[ev.i][t])))]
          /\ \A l \in Ls \ {ev.i} : /\ prior_cov[l] = ev.priors.prior_cov[l]
                                     /\ prior_inv[l] = ev.priors.prior_inv[l]

\* C17 witness: a rejected hyperparameter step whose new variance differed
\* from the prior covariance brought back.
C17_Witness ==
    /\ ev.kind = "hyperreject"
    /\ variance[ev.i] # prior_cov[ev.i][1]
    /\ Ls \ {ev.i} # {}

\* the number of blocks of an updater: channels for beta, latents for the rest
Blocks(b) == IF b = "beta" THEN N ELSE NL

\* C18: a block skipped for a gradient below the epsilon threshold is
\* followed by the next block of the same updater, whenever there is one.
C18_SkipGoesOnToNextBlock ==
    (ev.kind = "break" /\ ev.i < Blocks(ev.block)) => (pc = ev.block /\ idx = ev.i + 1)

\* the step size s after an accepted step that found the increment d of the
\* lower bound: 1.5 times s if d is above 0.75 times the predicted
\* increment, s otherwise
Grown(s, d) == IF fgt(d, fmul((3 * ONE) \div 4, predict)) THEN fmul(s, ONE + HALF) ELSE s

\* the entries of the step-size triple s other than that of the last step
\* are those of the triple r
OthersKept(s, r) ==
    /\ \A k \in 1 .. 3 : DOMAIN s[k] = DOMAIN r[k]
    /\ \A k \in 1 .. 3 : \A j \in DOMAIN s[k] :
          (k = (IF ev.block = "alpha" THEN 1 ELSE IF ev.block = "beta" THEN 2 ELSE 3)
             /\ j = ev.i) \/ s[k][j] = r[k][j]

\* what C19 says of the step sizes apart from the growth rule: they start
\* at 1.0, only an accepted or rejected step changes one, and then only the
\* step size of its own block
StepSizesOwned ==
    /\ ev.kind = "init" => \A k \in 1 .. 3 : \A j \in DOMAIN steps[k] : steps[k][j] = ONE
    /\ ev.kind \in {"accept", "reject"} => OthersKept(steps, ev.before[3])
    /\ ev.kind \notin {"init", "accept", "reject"} => steps = ev.before[3]

C20_StepSizeOfItsOwn ==
    /\ (ev.kind = "raise" /\ ev.block = "alpha") => ev.i \in DOMAIN stepsize_alpha
    /\ (ev.kind = "raise" /\ ev.block = "beta") => ev.i \in DOMAIN stepsize_beta
    /\ (ev.kind = "raise" /\ ev.block = "mean") => ev.i \in DOMAIN stepsize_post_mean

\* return lbound[:it], ...: the trace handed back
Returned == [i \in 0 .. it - 1 |-> lbound[i]]

\* what C21 says of the entries: the entry of the iteration just ended is
\* the lower bound of the state it ended in, the first entry of a fresh run
\* is the lower bound of the initial state, and the entries beyond the
\* trace are still the placeholder
EntriesComputed ==
    /\ ev.kind = "init" => lbound[0] = LB
    /\ ev.kind = "store" => lbound[it - 1] = LB
    /\ \A i \in DOMAIN lbound \ DOMAIN Returned : lbound[i] = NInf

\* an entry of the trace is not written again
EntriesKept == \A i \in DOMAIN Returned : lbound'[i] = lbound[i]

\* C21 as stated: the returned trace has as many entries as outer
\* iterations were carried out; every entry is a computed lower bound; no
\* entry is modified once recorded.
C21_OneEntryPerIteration ==
    /\ [](pc = "done" => Cardinality(DOMAIN Returned) = ev.iters)
    /\ [](pc # "raised" => EntriesComputed)
    /\ [][EntriesKept]_vars

\* C21 amended: the returned trace has one entry more than outer iterations
\* were carried out, the lower bound of the initial state followed by one
\* entry per iteration; every entry is a computed lower bound; no entry is
\* modified once recorded.
C21_InitialEntryThenOnePerIteration ==
    /\ [](pc = "done" => Cardinality(DOMAIN Returned) = ev.iters + 1)
    /\ [](pc # "raised" => EntriesComputed)
    /\ [][EntriesKept]_vars

\* C21 witness: a run returns after several outer iterations whose bounds
\* differ.
C21_Witness ==
    /\ pc = "done" /\ ev.iters > 2
    /\ \E i, j \in DOMAIN Returned : Returned[i] # Returned[j]

\* C22: in a run that optimizes the hyperparameters, no step of the beta,
\* alpha, posterior-mean or posterior-covariance blocks, and no storing of
\* the lower bound, changes the inverse squared lengthscales w: only the
\* hyperparameter step writes them.
C22_OnlyHyperStepWritesW == [][(args.hyper /\ pc # "hyper") => w' = w]_vars

\* every non-frozen block p equals its snapshot g
NoChange(g, p) ==
    /\ ~args.fixalpha => g[1] = p[3]
    /\ ~args.fixbeta => g[2] = p[4]
    /\ ~args.fixpostmean => g[3] = p[1]
    /\ ~args.fixpostcov => g[4] = p[2]

AllFrozen == args.fixalpha /\ args.fixbeta /\ args.fixpostmean /\ args.fixpostcov

\* the run is in its first outer iteration, or has returned converged
\* after exactly one
OneIteration ==
    \/ pc = "store" /\ ev.iters = 0
    \/ pc = "done" /\ ev.iters = 1 /\ converged

\* C23 as stated: an outer iteration that leaves every non-frozen block as
\* it found it ends with converged = true and the run returns; with all
\* four blocks frozen the run returns after exactly one outer iteration.
C23_NoChangeConverges ==
    /\ (ev.kind = "store" /\ NoChange(ev.goods, ev.before[1])) => (converged /\ pc = "done")
    /\ AllFrozen => OneIteration

\* C23 amended: with a tolerance above zero, an outer iteration that leaves
\* every non-frozen block as it found it ends with converged = true and the
\* run returns; with a tolerance above zero, an iteration limit above 1 and
\* all four blocks frozen the run returns after exactly one outer iteration.
C23_NoChangeConvergesWithinTol ==
    /\ (ev.kind = "store" /\ NoChange(ev.goods, ev.before[1]) /\ flt(0, tol))
           => (converged /\ pc = "done")
    /\ (AllFrozen /\ flt(0, tol) /\ maxiter > 1) => OneIteration

\* C23 witness: a run returns converged after an outer iteration in which a
\* block was tried and every step was rejected or skipped.
C23_Witness ==
    /\ pc = "done" /\ ev.kind = "store" /\ converged
    /\ ~AllFrozen /\ ev.rejected > 0
    /\ NoChange(ev.goods, ev.before[1])

=============================================================================
